---- MODULE Spec2Model ----
(***************************************************************************)
(* Model of examples/nfc-mfclassic.c (libnfc): the MIFARE Classic          *)
(* read / write / payload-extract tool.                                    *)
(*                                                                         *)
(* The transport (nfc_initiator_mifare_cmd, nfc_initiator_select_tag) is   *)
(* an external collaborator; every call to it is one step of the model and *)
(* its boolean result is chosen by the environment:                        *)
(*   - a tag that was removed answers nothing (every exchange fails);      *)
(*   - the card accepts an authentication only with its own key;           *)
(*   - any exchange that would succeed may fail transiently;               *)
(*   - a run has at most MaxFaults such events (transient failures and     *)
(*     the removal of the tag).                                            *)
(* A 6-byte key is represented by an identifier: 1..8 are the entries of   *)
(* keys[] in their declared order (entry 8 is 00 00 00 00 00 00), 9 is a   *)
(* key that is not in keys[].                                              *)
(***************************************************************************)
EXTENDS Integers, Sequences, FiniteSets, TLC

VARIABLES
  pc,            \* position of the program
  atAction,      \* main: atAction ("read" | "write" | "extract" | "geometry")
  bUseKeyA,      \* static bool bUseKeyA
  bUseKeyFile,   \* static bool bUseKeyFile
  uiBlocks,      \* static uint8_t uiBlocks (highest block index)
  mtKeys,        \* static mifare_tag mtKeys: the [A, B] key fields of its blocks
  iBlock,        \* read_card: int32_t iBlock
  uiBlock,       \* write_card: uint32_t uiBlock
  bFailure,      \* read_card / write_card: bool bFailure
  uiCounter,     \* read_card: uiReadBlocks, write_card: uiWriteBlocks
  nFlagged,      \* history: the sectors of the pass in which bFailure was set
  key_index,     \* authenticate: size_t key_index
  authResult,    \* value returned by authenticate
  passResult,    \* value returned by read_card / write_card
  errMsg,        \* the error lines printed so far (a set of their kinds)
  exitStatus,    \* argument of exit(), -1 while running
  keysFile,      \* keys file on disk: [len, A, B], len = NoFile when there is none
  dumpFile,      \* dump file on disk: [len, seed], len = NoFile when there is none
  abDump,        \* main (extract): char abDump[4096]
  abPayload,     \* main (extract): char abPayload[4096]
  payloadFile,   \* payload file on disk: its length in bytes, or NoFile
  tagPresent,    \* environment: the tag is in the field
  card4K,        \* environment: the tag answers ATQA[1] = 0x02
  cardKey,       \* environment: the key the card accepts for the key letter used
  faults,        \* environment: transient failures and removals so far
  log,           \* history: the transport exchanges of the last HistSectors sectors
  geomIn,        \* geometry check: the block index given
  geomOut        \* geometry check: the results computed for geomIn

vars == <<pc, atAction, bUseKeyA, bUseKeyFile, uiBlocks, mtKeys, iBlock, uiBlock,
          bFailure, uiCounter, nFlagged, key_index, authResult, passResult, errMsg,
          exitStatus, keysFile, dumpFile, abDump, abPayload, payloadFile,
          tagPresent, card4K, cardKey, faults, log, geomIn, geomOut>>

(***************************************************************************)
(* Bounds of the model                                                     *)
(***************************************************************************)
MaxFaults == 1      \* transient failures and tag removals per run
HistSectors == 2    \* sectors whose exchanges the history keeps

(***************************************************************************)
(* Program constants                                                       *)
(***************************************************************************)
num_keys == 8             \* sizeof(keys) / 6
ZeroKey == 8              \* keys[] entry 00 00 00 00 00 00, index 7
OtherKey == num_keys + 1  \* a key that is not in keys[]
DataKey == num_keys + 2   \* the key fields of a keys-file block that is no trailer
MaxBlock1K == 63          \* 0x3f
MaxBlock4K == 255         \* 0xff
BigSectorStart == 128     \* first block of the 16-block sectors
TagBytes == 4096          \* sizeof(mifare_tag), sizeof(abDump), sizeof(abPayload)
EXIT_SUCCESS == 0
EXIT_FAILURE == 1
NoFile == -1
Running == -1

Blocks == 0..MaxBlock4K

(***************************************************************************)
(* Sector geometry                                                         *)
(***************************************************************************)
is_first_block_mod4(b) == b % 4 = 0

is_first_block(b) ==
  IF b < BigSectorStart THEN b % 4 = 0 ELSE b % 16 = 0

is_trailer_block_mod4(b) == (b + 1) % 4 = 0

is_trailer_block(b) ==
  IF b < BigSectorStart THEN (b + 1) % 4 = 0 ELSE (b + 1) % 16 = 0

get_trailer_block_from_first(uiFirstBlock) ==
  IF uiFirstBlock < BigSectorStart THEN uiFirstBlock + 3 ELSE uiFirstBlock + 15

get_trailer_block(uiFirstBlock) ==
  IF uiFirstBlock < BigSectorStart
    THEN uiFirstBlock + (3 - (uiFirstBlock % 4))
    ELSE uiFirstBlock + (15 - (uiFirstBlock % 16))

(***************************************************************************)
(* History of transport exchanges                                          *)
(***************************************************************************)
\* Index of the sector of block b (32 sectors of 4 blocks, then 16-block sectors).
SectorOf(b) ==
  IF b < BigSectorStart THEN b \div 4 ELSE 32 + ((b - BigSectorStart) \div 16)

Exchange(op, block, key, ok) == [op |-> op, block |-> block, key |-> key, ok |-> ok]

\* The history keeps the exchanges of the sector of block b and of the
\* HistSectors - 1 sectors traversed before it.
Prune(lg, b) ==
  SelectSeq(lg, LAMBDA e :
     /\ SectorOf(e.block) - SectorOf(b) < HistSectors
     /\ SectorOf(b) - SectorOf(e.block) < HistSectors)

(***************************************************************************)
(* Transport collaborator (environment)                                    *)
(***************************************************************************)
\* The results the transport may give to an exchange that the card would
\* serve (accepted = TRUE) or refuse (accepted = FALSE).
Outcomes(accepted) ==
  IF ~tagPresent \/ ~accepted THEN {FALSE}
  ELSE IF faults < MaxFaults THEN {TRUE, FALSE}
  ELSE {TRUE}

\* The result ok of one transport exchange, counted when it is a transient
\* failure.
TransportResult(accepted, ok) ==
  /\ ok \in Outcomes(accepted)
  /\ faults' = IF tagPresent /\ accepted /\ ~ok THEN faults + 1 ELSE faults

\* One transport exchange of a pass with result ok, recorded in the history.
Transport(op, block, key, accepted, ok) ==
  /\ TransportResult(accepted, ok)
  /\ log' = Append(log, Exchange(op, block, key, ok))

\* The tag leaves the field before the first selection or between two
\* iterations of the loop of a pass.
RemovalPcs == {"connect", "r_loop", "w_loop"}

TagRemoved ==
  /\ pc \in RemovalPcs
  /\ tagPresent
  /\ faults < MaxFaults
  /\ tagPresent' = FALSE
  /\ faults' = faults + 1
  /\ UNCHANGED <<nFlagged, pc, atAction, bUseKeyA, bUseKeyFile, uiBlocks, mtKeys, iBlock,
                 uiBlock, bFailure, uiCounter, key_index, authResult, passResult,
                 errMsg, exitStatus, keysFile, dumpFile, abDump, abPayload,
                 payloadFile, card4K, cardKey, log, geomIn, geomOut>>

(***************************************************************************)
(* print_success_or_failure                                                *)
(***************************************************************************)
\* print_success_or_failure without the test of bFailure.
print_success_or_failure_always(bFail, uiBlockCounter) ==
  uiBlockCounter + 4

print_success_or_failure(bFail, uiBlockCounter) ==
  uiBlockCounter + (IF bFail THEN 0 ELSE 4)

(***************************************************************************)
(* authenticate(uiBlock)                                                   *)
(***************************************************************************)
envVars == <<tagPresent, card4K, cardKey>>
fileVars == <<keysFile, dumpFile, abDump, abPayload, payloadFile>>
geomVars == <<geomIn, geomOut>>
optVars == <<atAction, bUseKeyA, bUseKeyFile>>

\* The argument of the running authenticate call.
AuthBlock == IF atAction = "read" THEN iBlock ELSE uiBlock

KeyLetter == IF bUseKeyA THEN "A" ELSE "B"

\* keys + (key_index*6): the candidate tried at key_index.
CandidateKeyReversed(k) == num_keys - k

CandidateKey(k) == k + 1

\* The key-table slot the brute-force branch records the found key in.
CacheSlot(b) == b

\* mtKeys is kept as [fill, data, amb]: block b holds amb[b] when b is in the
\* domain of amb (the blocks written since the table was filled); otherwise a
\* trailer block holds fill and any other block holds data, the bytes of a
\* data block seen through the key fields of the union
\* otherwise.
KeysOf(keysTab, b) ==
  IF b \in DOMAIN keysTab.amb THEN keysTab.amb[b]
  ELSE IF is_trailer_block(b) THEN keysTab.fill
  ELSE keysTab.data

\* memcpy(mtKeys.amb[slot].mbt.abtKeyA or abtKeyB, &mp.mpa.abtKey, 6)
StoreKey(keysTab, slot, letter, key) ==
  [keysTab EXCEPT !.amb =
     [x \in (DOMAIN keysTab.amb) \cup {slot} |->
        IF x = slot THEN [KeysOf(keysTab, slot) EXCEPT ![letter] = key]
                    ELSE keysTab.amb[x]]]

\* "Locate the trailer (with the keys) used for this sector".
KeyFileSlotSame(b) == b

KeyFileSlot(b) == get_trailer_block(b)

\* Key file authentication: one exchange with the stored key of the trailer.
AuthKeyFile ==
  /\ pc = "auth"
  /\ bUseKeyFile
  /\ LET key == KeysOf(mtKeys, KeyFileSlot(AuthBlock))[KeyLetter] IN
       \E ok \in BOOLEAN :
         /\ Transport("auth", AuthBlock, key, key = cardKey, ok)
         /\ authResult' = ok
  /\ pc' = "auth_ret"
  /\ UNCHANGED <<nFlagged, optVars, uiBlocks, mtKeys, iBlock, uiBlock, bFailure, uiCounter,
                 key_index, passResult, errMsg, exitStatus, fileVars, envVars,
                 geomVars>>

\* Auto authentication: one iteration of the loop over keys[], up to the
\* return on success or to the reselection on failure.
AuthTry ==
  /\ pc = "auth"
  /\ ~bUseKeyFile
  /\ key_index < num_keys
  /\ LET key == CandidateKey(key_index) IN
       \E ok \in BOOLEAN :
         /\ Transport("auth", AuthBlock, key, key = cardKey, ok)
         /\ IF ok
              THEN /\ mtKeys' = StoreKey(mtKeys, CacheSlot(AuthBlock), KeyLetter, key)
                   /\ authResult' = TRUE
                   /\ pc' = "auth_ret"
              ELSE /\ pc' = "auth_sel"
                   /\ UNCHANGED <<mtKeys, authResult>>
  /\ UNCHANGED <<nFlagged, optVars, uiBlocks, iBlock, uiBlock, bFailure, uiCounter,
                 key_index, passResult, errMsg, exitStatus, fileVars, envVars,
                 geomVars>>

\* AuthReselect without the nfc_initiator_select_tag: the next candidate is
\* tried at once.
AuthNoReselect ==
  /\ pc = "auth_sel"
  /\ key_index' = key_index + 1
  /\ IF key_index + 1 < num_keys
       THEN pc' = "auth" /\ UNCHANGED authResult
       ELSE pc' = "auth_ret" /\ authResult' = FALSE
  /\ UNCHANGED <<nFlagged, optVars, uiBlocks, mtKeys, iBlock, uiBlock, bFailure,
                 uiCounter, passResult, errMsg, exitStatus, fileVars, envVars,
                 faults, log, geomVars>>

\* nfc_initiator_select_tag after a refused candidate (its result is not
\* looked at), key_index++, and the return of false once keys[] is exhausted.
AuthReselect ==
  /\ pc = "auth_sel"
  /\ log' = Append(log, Exchange("select", AuthBlock, 0, tagPresent))
  /\ key_index' = key_index + 1
  /\ IF key_index + 1 < num_keys
       THEN pc' = "auth" /\ UNCHANGED authResult
       ELSE pc' = "auth_ret" /\ authResult' = FALSE
  /\ UNCHANGED <<nFlagged, optVars, uiBlocks, mtKeys, iBlock, uiBlock, bFailure, uiCounter,
                 passResult, errMsg, exitStatus, fileVars, envVars, faults,
                 geomVars>>

(***************************************************************************)
(* read_card                                                               *)
(***************************************************************************)
authVars == <<key_index, authResult>>

\* for (iBlock=uiBlocks; iBlock>=0; iBlock--), at a trailer block: the count
\* of the sector just left, then the way to the reselection or to authenticate.
ReadTrailerHead ==
  /\ pc = "r_loop"
  /\ iBlock >= 0
  /\ is_trailer_block(iBlock)
  /\ uiCounter' = IF iBlock # uiBlocks
                    THEN print_success_or_failure(bFailure, uiCounter)
                    ELSE uiCounter
  /\ pc' = IF bFailure THEN "r_select" ELSE "auth"
  /\ key_index' = 0
  /\ log' = Prune(log, iBlock)
  /\ UNCHANGED <<nFlagged, optVars, uiBlocks, mtKeys, iBlock, uiBlock, bFailure, authResult,
                 passResult, errMsg, exitStatus, fileVars, envVars, faults, geomVars>>

\* The anti-collision redone after a failure; a failed one ends read_card
\* with "return 1".
ReadReselect ==
  /\ pc = "r_select"
  /\ \E ok \in BOOLEAN :
       /\ Transport("select", iBlock, 0, TRUE, ok)
       /\ IF ok
            THEN /\ bFailure' = FALSE
                 /\ pc' = "auth"
                 /\ UNCHANGED <<passResult, errMsg>>
            ELSE /\ errMsg' = errMsg \cup {"removed"}
                 /\ passResult' = TRUE
                 /\ pc' = "returned"
                 /\ UNCHANGED bFailure
  /\ UNCHANGED <<nFlagged, optVars, uiBlocks, mtKeys, iBlock, uiBlock, uiCounter, authVars,
                 exitStatus, fileVars, envVars, geomVars>>

\* ReadAuthFailed without the return: the error is printed and the loop goes on.
ReadAuthFailedGoesOn ==
  /\ pc = "auth_ret"
  /\ atAction = "read"
  /\ ~authResult
  /\ errMsg' = errMsg \cup {"auth"}
  /\ iBlock' = iBlock - 1
  /\ pc' = "r_loop"
  /\ UNCHANGED <<nFlagged, optVars, uiBlocks, mtKeys, uiBlock, bFailure, uiCounter,
                 authVars, passResult, exitStatus, fileVars, envVars, faults, log,
                 geomVars>>

\* if (!authenticate(iBlock)) ... return false;
ReadAuthFailed ==
  /\ pc = "auth_ret"
  /\ atAction = "read"
  /\ ~authResult
  /\ errMsg' = errMsg \cup {"auth"}
  /\ passResult' = FALSE
  /\ pc' = "returned"
  /\ UNCHANGED <<nFlagged, optVars, uiBlocks, mtKeys, iBlock, uiBlock, bFailure, uiCounter,
                 authVars, exitStatus, fileVars, envVars, faults, log, geomVars>>

\* The read of the trailer block after a successful authenticate; its
\* failure changes nothing but the dump.
ReadTrailer ==
  /\ pc = "auth_ret"
  /\ atAction = "read"
  /\ authResult
  /\ \E ok \in BOOLEAN : Transport("read", iBlock, 0, TRUE, ok)
  /\ iBlock' = iBlock - 1
  /\ pc' = "r_loop"
  /\ UNCHANGED <<nFlagged, optVars, uiBlocks, mtKeys, uiBlock, bFailure, uiCounter, authVars,
                 passResult, errMsg, exitStatus, fileVars, envVars, geomVars>>

\* A data block while no earlier readout of the sector failed.
ReadData ==
  /\ pc = "r_loop"
  /\ iBlock >= 0
  /\ ~is_trailer_block(iBlock)
  /\ ~bFailure
  /\ \E ok \in BOOLEAN :
       /\ Transport("read", iBlock, 0, TRUE, ok)
       /\ bFailure' = ~ok
       /\ nFlagged' = nFlagged + (IF ok THEN 0 ELSE 1)
  /\ iBlock' = iBlock - 1
  /\ UNCHANGED <<pc, optVars, uiBlocks, mtKeys, uiBlock, uiCounter, authVars,
                 passResult, errMsg, exitStatus, fileVars, envVars, geomVars>>

\* ReadSkip without the test of bFailure: the block is read all the same.
ReadSkipStillReads ==
  /\ pc = "r_loop"
  /\ iBlock >= 0
  /\ ~is_trailer_block(iBlock)
  /\ bFailure
  /\ \E ok \in BOOLEAN : Transport("read", iBlock, 0, TRUE, ok)
  /\ iBlock' = iBlock - 1
  /\ UNCHANGED <<nFlagged, pc, optVars, uiBlocks, mtKeys, uiBlock, bFailure, uiCounter,
                 authVars, passResult, errMsg, exitStatus, fileVars, envVars,
                 geomVars>>

\* A data block after a failed readout of the sector: nothing is done.
ReadSkip ==
  /\ pc = "r_loop"
  /\ iBlock >= 0
  /\ ~is_trailer_block(iBlock)
  /\ bFailure
  /\ iBlock' = iBlock - 1
  /\ UNCHANGED <<nFlagged, pc, optVars, uiBlocks, mtKeys, uiBlock, bFailure, uiCounter,
                 authVars, passResult, errMsg, exitStatus, fileVars, envVars,
                 faults, log, geomVars>>

\* After the loop: the count of the last sector, "Done, ...", return true.
ReadFinish ==
  /\ pc = "r_loop"
  /\ iBlock < 0
  /\ uiCounter' = print_success_or_failure(bFailure, uiCounter)
  /\ passResult' = TRUE
  /\ pc' = "returned"
  /\ UNCHANGED <<nFlagged, optVars, uiBlocks, mtKeys, iBlock, uiBlock, bFailure, authVars,
                 errMsg, exitStatus, fileVars, envVars, faults, log, geomVars>>

(***************************************************************************)
(* write_card                                                              *)
(***************************************************************************)
\* The manufacturer block, "read only, skip this".
IsReadOnlyBlockNever(b) == FALSE

IsReadOnlyBlock(b) == b = 0

\* for (uiBlock=0; uiBlock<=uiBlocks; uiBlock++), at the first block of a
\* sector: the count, then the way to the reselection or to authenticate.
WriteFirstHead ==
  /\ pc = "w_loop"
  /\ uiBlock <= uiBlocks
  /\ is_first_block(uiBlock)
  /\ uiCounter' = IF uiBlock # uiBlocks
                    THEN print_success_or_failure(bFailure, uiCounter)
                    ELSE uiCounter
  /\ pc' = IF bFailure THEN "w_select" ELSE "auth"
  /\ key_index' = 0
  /\ log' = Prune(log, uiBlock)
  /\ UNCHANGED <<nFlagged, optVars, uiBlocks, mtKeys, iBlock, uiBlock, bFailure, authResult,
                 passResult, errMsg, exitStatus, fileVars, envVars, faults, geomVars>>

\* Not the first block of a sector: straight to the block.
WriteOtherHead ==
  /\ pc = "w_loop"
  /\ uiBlock <= uiBlocks
  /\ ~is_first_block(uiBlock)
  /\ pc' = "w_block"
  /\ UNCHANGED <<nFlagged, optVars, uiBlocks, mtKeys, iBlock, uiBlock, bFailure, uiCounter,
                 authVars, passResult, errMsg, exitStatus, fileVars, envVars,
                 faults, log, geomVars>>

\* The anti-collision redone after a failure; a failed one ends write_card
\* with "return false".
WriteReselect ==
  /\ pc = "w_select"
  /\ \E ok \in BOOLEAN :
       /\ Transport("select", uiBlock, 0, TRUE, ok)
       /\ IF ok
            THEN /\ bFailure' = FALSE
                 /\ pc' = "auth"
                 /\ UNCHANGED <<passResult, errMsg>>
            ELSE /\ errMsg' = errMsg \cup {"removed"}
                 /\ passResult' = FALSE
                 /\ pc' = "returned"
                 /\ UNCHANGED bFailure
  /\ UNCHANGED <<nFlagged, optVars, uiBlocks, mtKeys, iBlock, uiBlock, uiCounter, authVars,
                 exitStatus, fileVars, envVars, geomVars>>

\* WriteAuthFailed without the return: the sector is written all the same.
WriteAuthFailedGoesOn ==
  /\ pc = "auth_ret"
  /\ atAction = "write"
  /\ ~authResult
  /\ errMsg' = errMsg \cup {"auth"}
  /\ pc' = "w_block"
  /\ UNCHANGED <<nFlagged, optVars, uiBlocks, mtKeys, iBlock, uiBlock, bFailure,
                 uiCounter, authVars, passResult, exitStatus, fileVars, envVars,
                 faults, log, geomVars>>

\* if (!authenticate(uiBlock)) ... return false;
WriteAuthFailed ==
  /\ pc = "auth_ret"
  /\ atAction = "write"
  /\ ~authResult
  /\ errMsg' = errMsg \cup {"auth"}
  /\ passResult' = FALSE
  /\ pc' = "returned"
  /\ UNCHANGED <<nFlagged, optVars, uiBlocks, mtKeys, iBlock, uiBlock, bFailure, uiCounter,
                 authVars, exitStatus, fileVars, envVars, faults, log, geomVars>>

WriteAuthOk ==
  /\ pc = "auth_ret"
  /\ atAction = "write"
  /\ authResult
  /\ pc' = "w_block"
  /\ UNCHANGED <<nFlagged, optVars, uiBlocks, mtKeys, iBlock, uiBlock, bFailure, uiCounter,
                 authVars, passResult, errMsg, exitStatus, fileVars, envVars,
                 faults, log, geomVars>>

\* WriteTrailer with the test of bFailure that the data blocks have: after
\* a failed write of the sector its trailer is passed over.
WriteTrailerUnlessFailed ==
  /\ pc = "w_block"
  /\ is_trailer_block(uiBlock)
  /\ IF bFailure
       THEN UNCHANGED <<bFailure, nFlagged, faults, log>>
       ELSE \E ok \in BOOLEAN :
              /\ Transport("write", uiBlock, 0, TRUE, ok)
              /\ bFailure' = ~ok
              /\ nFlagged' = nFlagged + (IF ok THEN 0 ELSE 1)
  /\ uiBlock' = uiBlock + 1
  /\ pc' = "w_loop"
  /\ UNCHANGED <<optVars, uiBlocks, mtKeys, iBlock, uiCounter, authVars,
                 passResult, errMsg, exitStatus, fileVars, envVars, geomVars>>

\* The trailer is written whatever bFailure is; a failed write sets it.
WriteTrailer ==
  /\ pc = "w_block"
  /\ is_trailer_block(uiBlock)
  /\ \E ok \in BOOLEAN :
       /\ Transport("write", uiBlock, 0, TRUE, ok)
       /\ bFailure' = IF ok THEN bFailure ELSE TRUE
       /\ nFlagged' = nFlagged + (IF ok \/ bFailure THEN 0 ELSE 1)
  /\ uiBlock' = uiBlock + 1
  /\ pc' = "w_loop"
  /\ UNCHANGED <<optVars, uiBlocks, mtKeys, iBlock, uiCounter, authVars,
                 passResult, errMsg, exitStatus, fileVars, envVars, geomVars>>

\* A data block other than block 0 while no earlier write of the sector failed.
WriteData ==
  /\ pc = "w_block"
  /\ ~is_trailer_block(uiBlock)
  /\ ~IsReadOnlyBlock(uiBlock)
  /\ ~bFailure
  /\ \E ok \in BOOLEAN :
       /\ Transport("write", uiBlock, 0, TRUE, ok)
       /\ bFailure' = ~ok
       /\ nFlagged' = nFlagged + (IF ok THEN 0 ELSE 1)
  /\ uiBlock' = uiBlock + 1
  /\ pc' = "w_loop"
  /\ UNCHANGED <<optVars, uiBlocks, mtKeys, iBlock, uiCounter, authVars,
                 passResult, errMsg, exitStatus, fileVars, envVars, geomVars>>

\* Block 0 ("continue"), or a data block after a failed write of the sector.
WriteSkip ==
  /\ pc = "w_block"
  /\ ~is_trailer_block(uiBlock)
  /\ IsReadOnlyBlock(uiBlock) \/ bFailure
  /\ uiBlock' = uiBlock + 1
  /\ pc' = "w_loop"
  /\ UNCHANGED <<nFlagged, optVars, uiBlocks, mtKeys, iBlock, bFailure, uiCounter, authVars,
                 passResult, errMsg, exitStatus, fileVars, envVars, faults, log,
                 geomVars>>

\* After the loop: one more count, "Done, ...", return true.
WriteFinish ==
  /\ pc = "w_loop"
  /\ uiBlock > uiBlocks
  /\ uiCounter' = print_success_or_failure(bFailure, uiCounter)
  /\ passResult' = TRUE
  /\ pc' = "returned"
  /\ UNCHANGED <<nFlagged, optVars, uiBlocks, mtKeys, iBlock, uiBlock, bFailure, authVars,
                 errMsg, exitStatus, fileVars, envVars, faults, log, geomVars>>

(***************************************************************************)
(* mifare_classic_extract_payload                                          *)
(***************************************************************************)
PayloadSectors == 1..15     \* for(uiSectorIndex=1; uiSectorIndex<16; ...)
PayloadBlocks == 0..2       \* for(uiBlockIndex=0; uiBlockIndex<3; ...)

\* szDumpOffset = uiSectorIndex*16*4 + uiBlockIndex*16
DumpOffsetThreeBlocks(uiSectorIndex, uiBlockIndex) ==
  uiSectorIndex * 16 * 3 + uiBlockIndex * 16

DumpOffset(uiSectorIndex, uiBlockIndex) ==
  uiSectorIndex * 16 * 4 + uiBlockIndex * 16

\* szPayloadIndex when the loops reach (uiSectorIndex, uiBlockIndex): 16 per
\* memcpy done before.
PayloadIndex(uiSectorIndex, uiBlockIndex) ==
  ((uiSectorIndex - 1) * 3 + uiBlockIndex) * 16

\* The buffer pbPayload after the loops: every memcpy of 16 bytes applied to
\* a buffer whose bytes were all fill before.
mifare_classic_extract_payload(dump, fill) ==
  [p \in 0..(TagBytes - 1) |->
     IF \E s \in PayloadSectors, b \in PayloadBlocks :
          p - PayloadIndex(s, b) \in 0..15
       THEN LET sb == CHOOSE sb \in PayloadSectors \X PayloadBlocks :
                        p - PayloadIndex(sb[1], sb[2]) \in 0..15
            IN dump[DumpOffset(sb[1], sb[2]) + (p - PayloadIndex(sb[1], sb[2]))]
       ELSE fill]

(***************************************************************************)
(* main                                                                    *)
(***************************************************************************)
passVars == <<uiBlocks, iBlock, uiBlock, bFailure, uiCounter, nFlagged, key_index,
              authResult, passResult>>

\* Byte o of a dump file written with markers: the first byte of every block
\* is the block index, the others depend on seed.
FileByte(seed, o) ==
  IF o % 16 = 0 THEN (o \div 16) % 256 ELSE (o * seed + 1) % 256

\* fread(buf, 1, size, file): the number of bytes read.
fread(len, size) == IF len < size THEN len ELSE size

\* The dump or keys file is read whole: fopen gave a file and fread gave
\* sizeof(buffer) bytes.
ReadWholeShort(file) == file.len # NoFile /\ file.len > 0

ReadWhole(file) == file.len # NoFile /\ fread(file.len, TagBytes) = TagBytes

\* ACTION_READ / ACTION_WRITE: the keys file, when one is given.
MainLoadKeys ==
  /\ pc = "main"
  /\ atAction \in {"read", "write"}
  /\ IF ~bUseKeyFile
       THEN pc' = "load_dump" /\ UNCHANGED <<mtKeys, errMsg, exitStatus>>
       ELSE IF ReadWhole(keysFile)
         THEN /\ mtKeys' = [fill |-> [A |-> keysFile.A, B |-> keysFile.B],
                               data |-> [A |-> DataKey, B |-> DataKey],
                               amb |-> <<>>]
              /\ pc' = "load_dump"
              /\ UNCHANGED <<errMsg, exitStatus>>
         ELSE /\ errMsg' = errMsg \cup {"file"}
              /\ exitStatus' = EXIT_FAILURE
              /\ pc' = "exit"
              /\ UNCHANGED mtKeys
  /\ UNCHANGED <<optVars, passVars, fileVars, envVars, faults, log, geomVars>>

\* ACTION_READ: memset(&mtDump, 0); ACTION_WRITE: the dump file is read.
MainLoadDump ==
  /\ pc = "load_dump"
  /\ IF atAction = "read" \/ ReadWhole(dumpFile)
       THEN pc' = "connect" /\ UNCHANGED <<errMsg, exitStatus>>
       ELSE /\ errMsg' = errMsg \cup {"file"}
            /\ exitStatus' = EXIT_FAILURE
            /\ pc' = "exit"
  /\ UNCHANGED <<optVars, mtKeys, passVars, fileVars, envVars, faults, log,
                 geomVars>>

\* The first tag selection, uiBlocks from the ATQA, and the entry of
\* read_card or write_card.
MainSelectTag ==
  /\ pc = "connect"
  /\ \E ok \in BOOLEAN :
       /\ TransportResult(TRUE, ok)
       /\ IF ok
            THEN /\ uiBlocks' = IF card4K THEN MaxBlock4K ELSE MaxBlock1K
                 /\ iBlock' = IF atAction = "read" THEN uiBlocks' ELSE iBlock
                 /\ uiBlock' = 0
                 /\ bFailure' = FALSE
                 /\ uiCounter' = 0
                 /\ nFlagged' = 0
                 /\ pc' = IF atAction = "read" THEN "r_loop" ELSE "w_loop"
                 /\ UNCHANGED <<errMsg, exitStatus>>
            ELSE /\ errMsg' = errMsg \cup {"notag"}
                 /\ exitStatus' = EXIT_FAILURE
                 /\ pc' = "exit"
                 /\ UNCHANGED <<uiBlocks, iBlock, uiBlock, bFailure, uiCounter, nFlagged>>
  /\ UNCHANGED <<optVars, mtKeys, authVars, passResult, fileVars, envVars, log,
                 geomVars>>

\* After read_card returned true: the dump is written to its file.
MainPersist ==
  /\ pc = "returned"
  /\ atAction = "read"
  /\ passResult
  /\ \E ok \in BOOLEAN :
       IF ok
         THEN /\ dumpFile' = [len |-> TagBytes, seed |-> 0]
              /\ exitStatus' = EXIT_SUCCESS
              /\ UNCHANGED errMsg
         ELSE /\ dumpFile' = [len |-> 0, seed |-> 0]
              /\ errMsg' = errMsg \cup {"file"}
              /\ exitStatus' = EXIT_FAILURE
  /\ pc' = "exit"
  /\ UNCHANGED <<optVars, mtKeys, passVars, keysFile, abDump, abPayload,
                 payloadFile, envVars, faults, log, geomVars>>

\* After read_card returned false, or after write_card: nfc_disconnect and
\* exit(EXIT_SUCCESS).
MainNoPersist ==
  /\ pc = "returned"
  /\ ~(atAction = "read" /\ passResult)
  /\ exitStatus' = EXIT_SUCCESS
  /\ pc' = "exit"
  /\ UNCHANGED <<optVars, mtKeys, passVars, errMsg, fileVars, envVars, faults,
                 log, geomVars>>

\* ACTION_EXTRACT: the dump file is read into abDump.
ExtractLoadDump ==
  /\ pc = "main"
  /\ atAction = "extract"
  /\ IF ReadWhole(dumpFile)
       THEN /\ abDump' = [o \in 0..(TagBytes - 1) |-> FileByte(dumpFile.seed, o)]
            /\ pc' = "extract"
            /\ UNCHANGED <<errMsg, exitStatus>>
       ELSE /\ errMsg' = errMsg \cup {"file"}
            /\ exitStatus' = EXIT_FAILURE
            /\ pc' = "exit"
            /\ UNCHANGED abDump
  /\ UNCHANGED <<optVars, mtKeys, passVars, keysFile, dumpFile, abPayload,
                 payloadFile, envVars, faults, log, geomVars>>

\* mifare_classic_extract_payload(abDump, abPayload); the bytes of abPayload
\* that it does not write are not initialised.
ExtractPayload ==
  /\ pc = "extract"
  /\ \E fill \in {0, 255} :
       abPayload' = mifare_classic_extract_payload(abDump, fill)
  /\ pc' = "x_write"
  /\ UNCHANGED <<optVars, mtKeys, passVars, errMsg, exitStatus, keysFile,
                 dumpFile, abDump, payloadFile, envVars, faults, log, geomVars>>

\* fwrite(abPayload, 1, sizeof(abPayload), pfPayload)
ExtractWrite ==
  /\ pc = "x_write"
  /\ \E ok \in BOOLEAN :
       IF ok
         THEN /\ payloadFile' = TagBytes
              /\ exitStatus' = EXIT_SUCCESS
              /\ UNCHANGED errMsg
         ELSE /\ payloadFile' = 0
              /\ errMsg' = errMsg \cup {"file"}
              /\ exitStatus' = EXIT_FAILURE
  /\ pc' = "exit"
  /\ UNCHANGED <<optVars, mtKeys, passVars, keysFile, dumpFile, abDump,
                 abPayload, envVars, faults, log, geomVars>>

(***************************************************************************)
(* Sector geometry applied to one block index                              *)
(***************************************************************************)
\* The run of blocks that is the sector of block b.
SectorRun(b) == {x \in Blocks : SectorOf(x) = SectorOf(b)}

GeomApply ==
  /\ pc = "geom"
  /\ geomOut' = [firsts       |-> {x \in SectorRun(geomIn) : is_first_block(x)},
                 trailers     |-> {x \in SectorRun(geomIn) : is_trailer_block(x)},
                 trailerOf    |-> get_trailer_block(geomIn),
                 trailerTwice |-> get_trailer_block(get_trailer_block(geomIn))]
  /\ pc' = "geom_done"
  /\ UNCHANGED <<optVars, mtKeys, passVars, errMsg, exitStatus, fileVars, envVars,
                 faults, log, geomIn>>

(***************************************************************************)
(* Initial states                                                          *)
(***************************************************************************)
CandidateKeys == 1..num_keys
KeyFileKeys == {1, OtherKey}            \* keys found in the keys files tried
PassDumpLens == {1024, TagBytes}        \* dump files given to a write pass
FileLens == {0, 1023, 1024, 1025, TagBytes - 1, TagBytes, TagBytes + 1, 2 * TagBytes}
FileSeeds == {0, 3, 7}

ZeroKeys == [fill |-> [A |-> ZeroKey, B |-> ZeroKey],
             data |-> [A |-> ZeroKey, B |-> ZeroKey],
             amb |-> <<>>]

\* What is common to every start: nothing ran yet, statics are zero.
InitCommon ==
  /\ mtKeys = ZeroKeys
  /\ uiBlocks = 0
  /\ iBlock = 0
  /\ uiBlock = 0
  /\ bFailure = FALSE
  /\ uiCounter = 0
  /\ nFlagged = 0
  /\ key_index = 0
  /\ authResult = FALSE
  /\ passResult = FALSE
  /\ errMsg = {}
  /\ exitStatus = Running
  /\ abDump = <<>>
  /\ abPayload = <<>>
  /\ payloadFile = NoFile
  /\ tagPresent = TRUE
  /\ faults = 0
  /\ log = <<>>
  /\ geomOut = "none"

\* A file that does not exist has length NoFile.
NoKeysFile == [len |-> NoFile, A |-> 0, B |-> 0]
NoDumpFile == [len |-> NoFile, seed |-> 0]

KeysFiles ==
  {NoKeysFile} \cup [len : {1024, TagBytes}, A : KeyFileKeys, B : KeyFileKeys]

DumpFiles(lens, seeds) == {NoDumpFile} \cup [len : lens, seed : seeds]

\* "r|w a|b <dump.mfd> [<keys.mfd>]" with a tag in the field.  The 4K tag is
\* tried with a keys file that holds the card's key as key A and as key B;
\* without a keys file, key B is tried on a card whose key B is the third
\* candidate or no candidate.
InitPass ==
  /\ InitCommon
  /\ pc = "main"
  /\ geomIn = 0
  /\ atAction \in {"read", "write"}
  /\ bUseKeyA \in BOOLEAN
  /\ bUseKeyFile \in BOOLEAN
  /\ cardKey \in IF bUseKeyFile THEN {1}
                ELSE IF bUseKeyA THEN CandidateKeys \cup {OtherKey}
                ELSE {3, OtherKey}
  /\ keysFile \in IF bUseKeyFile THEN KeysFiles ELSE {NoKeysFile}
  /\ card4K \in IF bUseKeyFile /\ keysFile.len = TagBytes
                     /\ keysFile.A = cardKey /\ keysFile.B = cardKey
                  THEN BOOLEAN ELSE {FALSE}
  /\ dumpFile \in IF atAction = "write" THEN DumpFiles(PassDumpLens, {0})
                                        ELSE {NoDumpFile}

\* "x <dump.mfd> <payload.bin>", and "w" up to the reading of its files.
InitFiles ==
  /\ InitCommon
  /\ pc = "main"
  /\ geomIn = 0
  /\ atAction \in {"extract", "write"}
  /\ bUseKeyA = TRUE
  /\ bUseKeyFile = FALSE
  /\ card4K = FALSE
  /\ cardKey = 1
  /\ keysFile = NoKeysFile
  /\ dumpFile \in DumpFiles(FileLens, FileSeeds)

InitGeom ==
  /\ InitCommon
  /\ pc = "geom"
  /\ geomIn \in Blocks
  /\ atAction = "geometry"
  /\ bUseKeyA = TRUE
  /\ bUseKeyFile = FALSE
  /\ card4K = FALSE
  /\ cardKey = 1
  /\ keysFile = NoKeysFile
  /\ dumpFile = NoDumpFile

(***************************************************************************)
(* Specifications                                                          *)
(***************************************************************************)
Init == InitPass

Next ==
  \/ MainLoadKeys
  \/ MainLoadDump
  \/ MainSelectTag
  \/ TagRemoved
  \/ AuthKeyFile
  \/ AuthTry
  \/ AuthReselect
  \/ ReadTrailerHead
  \/ ReadReselect
  \/ ReadAuthFailed
  \/ ReadTrailer
  \/ ReadData
  \/ ReadSkip
  \/ ReadFinish
  \/ WriteFirstHead
  \/ WriteOtherHead
  \/ WriteReselect
  \/ WriteAuthFailed
  \/ WriteAuthOk
  \/ WriteTrailer
  \/ WriteData
  \/ WriteSkip
  \/ WriteFinish
  \/ MainPersist
  \/ MainNoPersist

Spec == Init /\ [][Next]_vars

\* The file handling of main and the payload extraction.
NextFiles ==
  \/ MainLoadKeys
  \/ MainLoadDump
  \/ ExtractLoadDump
  \/ ExtractPayload
  \/ ExtractWrite

SpecFiles == InitFiles /\ [][NextFiles]_vars

\* The sector geometry functions applied to every block index.
NextGeom == GeomApply

SpecGeom == InitGeom /\ [][NextGeom]_vars

(***************************************************************************)
(* Properties                                                              *)
(***************************************************************************)
LogEntries == {log[i] : i \in DOMAIN log}

\* Blocks for which the history holds a read exchange, a failed read exchange.
ReadsIssued == {e.block : e \in {x \in LogEntries : x.op = "read"}}
ReadsOk == {e.block : e \in {x \in LogEntries : x.op = "read" /\ x.ok}}
ReadsFailed == {e.block : e \in {x \in LogEntries : x.op = "read" /\ ~x.ok}}

\* The authentication exchanges issued for block b, in their order.
AuthTries(b) == SelectSeq(log, LAMBDA e : e.op = "auth" /\ e.block = b)

PassOver == pc \in {"returned", "exit"}
NoFatal == "auth" \notin errMsg /\ "removed" \notin errMsg

\* C1 as stated: in a read pass over a 1K card where every authentication
\* succeeds and the read of block 5 fails, no read exchange is issued for
\* blocks 4 and 6, and a read exchange for block 8 is issued.  Stated when
\* the pass has gone through blocks 11..4 and is about to enter the sector
\* of block 3 (the history then holds the sectors of blocks 8 and 5).
C1_Original ==
  (atAction = "read" /\ uiBlocks = MaxBlock1K /\ pc = "r_loop" /\ iBlock = 3
     /\ 5 \in ReadsFailed)
  => (4 \notin ReadsIssued /\ 6 \notin ReadsIssued /\ 8 \in ReadsIssued)

\* C1 amended: the 1K card is read from block 63 down to block 0, so when the
\* read of block 5 fails, block 6 has been read (successfully) before it, no
\* read exchange is issued for block 4, and the next sector traversed is still
\* attempted: a pass that ends without a fatal error has read block 3.
C1_ReadContainment ==
  (atAction = "read" /\ uiBlocks = MaxBlock1K /\ 5 \in ReadsFailed)
  => /\ 4 \notin ReadsIssued
     /\ 6 \in ReadsOk
     /\ (PassOver /\ NoFatal) => 3 \in ReadsIssued

C1_Witness ==
  /\ atAction = "read" /\ uiBlocks = MaxBlock1K /\ pc = "exit" /\ NoFatal
  /\ 5 \in ReadsFailed
  /\ 3 \in ReadsIssued

\* C2: brute-force authenticate tries keys[] in declared order and stops at
\* the first success: for every block with an accepted authentication, the
\* authentication exchanges issued for it are candidates 1, 2, .., k in that
\* order (k <= 8), only the k-th succeeded, k is the position of the first
\* candidate the transport accepted, and the call returned success.
C2_BruteForceOrder ==
  ~bUseKeyFile =>
    \A b \in {e.block : e \in {x \in LogEntries : x.op = "auth" /\ x.ok}} :
      LET tries == AuthTries(b) IN
        /\ Len(tries) \in 1..num_keys
        /\ \A i \in 1..Len(tries) :
             /\ tries[i].key = i
             /\ tries[i].ok = (i = Len(tries))
        /\ (pc = "auth_ret" /\ AuthBlock = b) =>
             (authResult /\ key_index + 1 = Len(tries))

C2_Witness ==
  /\ ~bUseKeyFile /\ pc = "auth_ret" /\ authResult
  /\ Len(AuthTries(AuthBlock)) = 3
  /\ AuthTries(AuthBlock)[3].ok

\* C3: in a write pass no write exchange targets block 0.
C3_NoWriteBlock0 ==
  \A e \in LogEntries : e.op = "write" => e.block # 0

C3_Witness ==
  /\ atAction = "write" /\ pc = "w_loop" /\ uiBlock = 1
  /\ \E e \in LogEntries : e.op = "auth" /\ e.block = 0 /\ e.ok

\* C4: when authenticate fails in a read or write pass, the pass returns
\* failure at once, and from then on no transport exchange is issued and the
\* dump file is not written.
C4_AuthFailureFatal ==
  [][ /\ (pc = "auth_ret" /\ ~authResult /\ pc' # pc) =>
           (pc' = "returned" /\ passResult' = FALSE /\ log' = log
              /\ "auth" \in errMsg')
      /\ ("auth" \in errMsg) =>
           (pc = "returned" /\ pc' = "exit" /\ passResult = FALSE
              /\ log' = log /\ dumpFile' = dumpFile) ]_vars

C4_Witness ==
  /\ atAction = "read" /\ pc = "exit" /\ "auth" \in errMsg
  /\ iBlock < uiBlocks
  /\ dumpFile.len = NoFile

\* C5 as stated: a failed reselection at a sector boundary ends the pass with
\* a failure result, and a read pass so ended does not persist the dump.
C5_TagRemovalFatal ==
  ("removed" \in errMsg /\ pc = "exit") =>
     (passResult = FALSE /\ (atAction = "read" => dumpFile.len = NoFile))

\* C6 as stated: the exit status is non-zero on every fatal condition, and
\* zero only when none occurred.
C6_ExitStatus ==
  pc = "exit" => ((errMsg # {}) <=> (exitStatus # EXIT_SUCCESS))

\* C7: the first 720 bytes of the extracted payload are the data blocks of
\* sectors 1..15 of the dump in ascending block order: payload block i
\* (0 <= i < 45) is dump block 4*(1 + i div 3) + (i mod 3), which is never a
\* block of sector 0 nor a trailer block.
C7_PayloadLayout ==
  pc = "x_write" =>
    \A i \in 0..44 :
      LET src == 4 * (1 + (i \div 3)) + (i % 3) IN
        /\ src \notin 0..3
        /\ src % 4 # 3
        /\ abPayload[16 * i] = src
        /\ \A j \in 0..15 : abPayload[16 * i + j] = abDump[16 * src + j]

C7_Witness ==
  /\ pc = "x_write" /\ dumpFile.seed = 7
  /\ abPayload[0] = 4 /\ abPayload[16 * 44] = 62

\* The dump file has been looked at, and was taken or refused.
DumpDecided == pc \notin {"main", "load_dump"}
DumpRefused == pc = "exit" /\ payloadFile = NoFile /\ "file" \in errMsg
DumpAccepted == DumpDecided /\ ~DumpRefused

GeomLo == IF geomIn < 128 THEN 4 * (geomIn \div 4) ELSE 16 * (geomIn \div 16)
GeomHi == IF geomIn < 128 THEN GeomLo + 3 ELSE GeomLo + 15

\* C9: every sector holds exactly one block for which is_first_block is true,
\* its lowest, and exactly one for which is_trailer_block is true, its
\* highest, and get_trailer_block of any of its blocks is that highest block.
C9_GeometryPartition ==
  pc = "geom_done" =>
    /\ SectorRun(geomIn) = GeomLo..GeomHi
    /\ geomOut.firsts = {GeomLo}
    /\ geomOut.trailers = {GeomHi}
    /\ geomOut.trailerOf = GeomHi

C9_Witness ==
  pc = "geom_done" /\ geomIn = 128 /\ geomOut.firsts = {128}
    /\ geomOut.trailerOf = 143

\* C10: get_trailer_block(get_trailer_block(x)) = get_trailer_block(x) for
\* every block index x in 0..255.
C10_TrailerIdempotent ==
  pc = "geom_done" => geomOut.trailerTwice = geomOut.trailerOf

C10_Witness ==
  pc = "geom_done" /\ geomIn = 5 /\ geomOut.trailerOf = 7
    /\ geomOut.trailerTwice = 7

\* The positions of the history, and the sector of the block of one of them.
LogPos == DOMAIN log
LogSector(i) == SectorOf(log[i].block)
IsBlockOp(i) == log[i].op \in {"read", "write"}

\* C11 as stated: in a read pass, once the read exchange of any block of a
\* sector (its trailer as well as a data block) has failed, no read exchange
\* is issued for another block of that sector.
C11_FailedReadEndsSector ==
  atAction = "read" =>
    \A i, j \in LogPos :
      (i < j /\ log[i].op = "read" /\ ~log[i].ok /\ log[j].op = "read")
        => LogSector(j) # LogSector(i)

\* The write exchanges issued for block b, in their order.
WritesOf(b) == SelectSeq(log, LAMBDA e : e.op = "write" /\ e.block = b)

\* The latest exchange of the history.  Every exchange is the latest one in
\* the state that follows the step issuing it, so what is stated of the
\* latest exchange in every state holds of every exchange.
Last == Len(log)

\* C12: in a write pass, when the loop has gone past the trailer of a
\* sector, the latest exchange is the write exchange of that trailer, whether
\* or not a data-block write of the sector failed before; no block gets a
\* second write exchange; and a write exchange for a data block is never
\* issued after a failed data-block write of its sector.
C12_TrailerAlwaysWritten ==
  atAction = "write" =>
    /\ (pc = "w_loop" /\ uiBlock > 0 /\ is_trailer_block(uiBlock - 1)) =>
         /\ Last > 0
         /\ log[Last].op = "write"
         /\ log[Last].block = uiBlock - 1
    /\ (Last > 0 /\ log[Last].op = "write") =>
         \A i \in 1..(Last - 1) :
           /\ ~(log[i].op = "write" /\ log[i].block = log[Last].block)
           /\ ~(/\ ~is_trailer_block(log[Last].block)
                /\ log[i].op = "write" /\ ~log[i].ok
                /\ ~is_trailer_block(log[i].block)
                /\ LogSector(i) = LogSector(Last))

C12_Witness ==
  /\ atAction = "write"
  /\ pc = "w_loop"
  /\ uiBlock = 8
  /\ \E i, j \in LogPos :
       /\ i < j
       /\ log[i] = Exchange("write", 5, 0, FALSE)
       /\ log[j].op = "write" /\ log[j].block = 7
  /\ Len(WritesOf(6)) = 0

\* C13 as stated: after a failed block read or write exchange (data block or
\* trailer block) a reselection is issued before the next authentication
\* exchange.
C13_ReselectAfterFailure ==
  \A i, j \in LogPos :
    (i < j /\ IsBlockOp(i) /\ ~log[i].ok /\ log[j].op = "auth")
      => \E k \in LogPos : i < k /\ k < j /\ log[k].op = "select"

\* "Done, %d of %d blocks read / written": the total printed with the count.
ReportedTotal == uiBlocks + 1

\* The number of sectors of the card the pass runs over.
NumSectors == SectorOf(uiBlocks) + 1

\* C14: when a read pass completes without a fatal condition, the count it
\* reports is 4 times the number of sectors that ended with the failure flag
\* clear, and the total it reports is the number of blocks of the card.
C14_ReadCount ==
  (atAction = "read" /\ pc = "returned" /\ NoFatal) =>
    /\ uiCounter = 4 * (NumSectors - nFlagged)
    /\ ReportedTotal = IF card4K THEN MaxBlock4K + 1 ELSE MaxBlock1K + 1

C14_Witness ==
  /\ atAction = "read" /\ pc = "returned" /\ NoFatal
  /\ nFlagged = 1
  /\ uiCounter = 60

\* C15 as stated: when a write pass completes without a fatal condition, the
\* count it reports is 4 times the number of sectors whose writes all
\* succeeded, with no increment that belongs to no sector.
C15_WriteCount ==
  (atAction = "write" /\ pc = "returned" /\ NoFatal) =>
    uiCounter = 4 * (NumSectors - nFlagged)

\* C16: with a keys file, authenticate issues one authentication exchange,
\* with the key A or B (as chosen) that the keys file holds in the trailer
\* block of the sector, and returns the result of that exchange: no block
\* gets a second authentication exchange, no reselection is issued for a
\* block after its authentication exchange, and the key table stays as
\* loaded.
C16_KeyFileAuth ==
  bUseKeyFile =>
    /\ mtKeys.amb = << >>
    /\ (Last > 0 /\ log[Last].op = "auth") =>
         /\ log[Last].key = keysFile[KeyLetter]
         /\ Len(AuthTries(log[Last].block)) = 1
    /\ (Last > 0 /\ log[Last].op = "select") =>
         Len(AuthTries(log[Last].block)) = 0
    /\ pc = "auth_ret" =>
         /\ Last > 0
         /\ log[Last].op = "auth"
         /\ log[Last].block = AuthBlock
         /\ authResult = log[Last].ok

C16_Witness ==
  /\ bUseKeyFile /\ ~bUseKeyA
  /\ atAction = "write"
  /\ pc = "auth_ret"
  /\ uiBlock = 4
  /\ authResult
  /\ log[Last] = Exchange("auth", 4, keysFile.B, TRUE)

\* C17: without a keys file, an authentication exchange for a block that
\* already got one is preceded by a reselection issued after the earlier
\* one; when authenticate returns failure, the block got exactly num_keys
\* authentication exchanges, all refused; and the key table changes in no
\* step of authenticate but the one that returns success.
C17_BruteForceExhaust ==
  [][~bUseKeyFile =>
       /\ (Last > 0 /\ log[Last].op = "auth") =>
            \A i \in 1..(Last - 1) :
              (log[i].op = "auth" /\ log[i].block = log[Last].block)
                => \E k \in (i + 1)..(Last - 1) : log[k].op = "select"
       /\ (pc = "auth_ret" /\ ~authResult) =>
            /\ Len(AuthTries(AuthBlock)) = num_keys
            /\ \A n \in 1..num_keys : ~AuthTries(AuthBlock)[n].ok
       /\ (pc \in {"auth", "auth_sel"} /\ ~(pc' = "auth_ret" /\ authResult'))
            => mtKeys' = mtKeys]_vars

C17_Witness ==
  /\ ~bUseKeyFile
  /\ pc = "auth_ret" /\ ~authResult
  /\ Len(AuthTries(AuthBlock)) = num_keys
  /\ mtKeys = ZeroKeys

\* C18 as stated: when authenticate has found a key by trying the
\* candidates, in a read pass or in a write pass, the key table holds the
\* accepted candidate under the requested letter in the trailer block of the
\* sector, and keeps the counterpart key of that block.
C18_CacheAtTrailer ==
  (~bUseKeyFile /\ pc = "auth_ret" /\ authResult) =>
    LET slot == KeysOf(mtKeys, get_trailer_block(AuthBlock))
        other == IF bUseKeyA THEN "B" ELSE "A"
    IN /\ slot[KeyLetter] = log[Len(log)].key
       /\ slot[other] = ZeroKey

\* C19: every block read or write exchange comes after a successful
\* authentication exchange for a block of the same sector, with no
\* authentication exchange for another sector in between.
C19_AuthBeforeBlockOp ==
  (Last > 0 /\ IsBlockOp(Last)) =>
    \E i \in 1..(Last - 1) :
      /\ log[i].op = "auth" /\ log[i].ok
      /\ LogSector(i) = LogSector(Last)
      /\ \A k \in (i + 1)..(Last - 1) :
           log[k].op = "auth" => LogSector(k) = LogSector(Last)

C19_Witness ==
  /\ atAction = "write"
  /\ pc = "w_loop"
  /\ uiBlock = 7
  /\ log[Last] = Exchange("write", 6, 0, TRUE)
  /\ \E i \in LogPos : log[i].op = "auth" /\ log[i].block = 4 /\ log[i].ok
  /\ \E i \in LogPos : log[i].op = "write" /\ log[i].block = 3

\* C20 as stated: the count reported at the end of a read or write pass
\* never exceeds the total number of blocks reported with it.
C20_CountWithinTotal ==
  (pc = "returned" /\ NoFatal) => uiCounter <= ReportedTotal

====
